---- MODULE Spec2Model ----
(***************************************************************************)
(* Pastebin-Lite: the handlers of app/main.py (health check, create, read, *)
(* HTML view) over the shared Redis store, and the time source of          *)
(* app/redis_client.py.                                                    *)
(*                                                                         *)
(* The store is a remote service (Upstash Redis over REST) shared by every *)
(* server process and serverless instance of the app.  A handler that      *)
(* calls the store is translated as the alternation it is: a step in which *)
(* the host runs the code up to a store call (reading the clock where the  *)
(* code reads it), a step in which the store serves the call, and so on up *)
(* to the step in which the host, the last reply in hand, answers.  Other  *)
(* requests, the store's own eviction and the passage of time interleave   *)
(* between any two steps.  The hosts' clocks and the store's clock agree;  *)
(* the hosts' time zones need not.                                         *)
(*                                                                         *)
(* Python's None is the empty tuple << >> and a present value v is <<v>>;  *)
(* a header value is a string, written as a tuple of characters.           *)
(*                                                                         *)
(* Python's int has no width.  ttl_seconds is any int >= 1 the client      *)
(* sends, so ttl_seconds and what is computed from it (expires_at_ms, the  *)
(* store's deadline, the seconds given to fromtimestamp) are wide numbers: *)
(* the digits of the int in base 10000, lowest first, <<0>> for zero.  The *)
(* times of the clock and of x-test-now-ms, and the counters, are plain    *)
(* integers.                                                               *)
(***************************************************************************)
EXTENDS Integers, Sequences, FiniteSets, Bags, TLC

VARIABLES
    clock,      \* time.time() * 1000 of the hosts, epoch milliseconds
    testMode,   \* os.getenv("TEST_MODE") == "1", fixed for the process
    store,      \* the Redis keyspace: paste id -> Absent or [value, deadline]
    inflight,   \* the create_paste, get_paste and view_paste_html handlers
                \* between their first store call and their answer: a bag
                \* of their locals
    created,    \* history: the paste_data create_paste built for each token
    successes,  \* history: number of 200 responses of get_paste per id
    previewed,  \* history: view_paste_html has shown the paste of this id
    lastResp    \* history: the response the last step sent, NoResp if none

vars == <<clock, testMode, store, inflight, created, successes, previewed,
          lastResp>>

----------------------------------------------------------------------------
(* Bounds of the model.                                                    *)

\* the server processes (workers, serverless instances) of the app. A
\* handler is an async def that calls the blocking Redis client, so a
\* process runs one request at a time, from its first line to its answer.
Workers == {"w1", "w2"}
\* largest max_views a client asks for
MaxViews == 2
\* get_paste requests per id that get past the store's GET and can succeed:
\* one more than the largest limit, so that every limit can be overrun
MaxReads == MaxViews + 1
\* what redis_client.ping() does: it returns PONG, or it raises
PingOutcomes == {"PONG", "ConnectionError"}

\* paste ids a client can ask for
Ids == {"id1", "id2"}
\* paste ids secrets.token_urlsafe returns: one paste, or two
OneToken == {"id1"}
TwoTokens == {"id1", "id2"}
\* 253402300800 as a wide number: the seconds from 1970 to the year 10000, a
\* ttl_seconds PasteCreate accepts and datetime cannot show
FarTtl == <<800, 230, 2534>>
\* bodies of POST /api/pastes: those pydantic accepts (without ttl_seconds,
\* with a short one, and with the far one for a paste without max_views and
\* for one of a single view), and one rejected for each constraint of
\* PasteCreate
ValidBodies ==
    [content : {"a"}, ttl_seconds : {<< >>, << <<1>> >>},
     max_views : {<< >>} \cup {<<n>> : n \in 1..MaxViews}]
    \cup [content : {"a"}, ttl_seconds : {<<FarTtl>>},
          max_views : {<< >>, <<1>>}]
InvalidBodies ==
    {[content |-> "", ttl_seconds |-> << >>, max_views |-> << >>],
     [content |-> "a", ttl_seconds |-> << <<0>> >>, max_views |-> << >>],
     [content |-> "a", ttl_seconds |-> << >>, max_views |-> <<0>>]}
Bodies == ValidBodies \cup InvalidBodies
\* instants the hosts' clock is observed at
ClockPoints == {0, 1000, 2000}
\* x-test-now-ms: header absent, or the string "1000"
Headers == {<< >>, << <<"1", "0", "0", "0">> >>}
\* the hosts' time zones, as seconds east of UTC: UTC and Asia/Kolkata
UtcOffsets == {0, 19800}

None == << >>
Some(v) == <<v>>
Absent == [present |-> FALSE]

----------------------------------------------------------------------------
(* Python helpers.                                                         *)

\* a plain integer n >= 0 as a wide number
RECURSIVE wide(_)
wide(n) == IF n < 10000 THEN <<n>> ELSE <<n % 10000>> \o wide(n \div 10000)

\* a sequence of digits without its leading zeros
RECURSIVE trim(_)
trim(a) ==
    IF Len(a) > 1 /\ a[Len(a)] = 0 THEN trim(SubSeq(a, 1, Len(a) - 1)) ELSE a

digit(a, i) == IF i <= Len(a) THEN a[i] ELSE 0

RECURSIVE plus_from(_, _, _, _)
plus_from(a, b, i, carry) ==
    IF i > Len(a) /\ i > Len(b)
    THEN IF carry = 0 THEN << >> ELSE <<carry>>
    ELSE LET t == digit(a, i) + digit(b, i) + carry
         IN  <<t % 10000>> \o plus_from(a, b, i + 1, t \div 10000)

\* a + b of wide numbers
plus(a, b) == trim(plus_from(a, b, 1, 0))

RECURSIVE times_from(_, _, _, _)
times_from(a, k, i, carry) ==
    IF i > Len(a)
    THEN IF carry = 0 THEN << >> ELSE wide(carry)
    ELSE LET t == a[i] * k + carry
         IN  <<t % 10000>> \o times_from(a, k, i + 1, t \div 10000)

\* a * k of a wide number and a plain integer 0 <= k <= 100000
times(a, k) == trim(times_from(a, k, 1, 0))

RECURSIVE less_at(_, _, _)
less_at(a, b, i) ==
    IF i = 0 THEN FALSE
    ELSE IF a[i] # b[i] THEN a[i] < b[i]
    ELSE less_at(a, b, i - 1)

\* a < b of wide numbers
less(a, b) ==
    IF Len(a) # Len(b) THEN Len(a) < Len(b) ELSE less_at(a, b, Len(a))

\* long division of the digits i..1 of a by the plain integer d, rem being
\* what the higher digits left and q the digits of the quotient so far: the
\* digits of the quotient and the remainder
RECURSIVE divmod_at(_, _, _, _, _)
divmod_at(a, d, i, rem, q) ==
    IF i = 0 THEN [q |-> q, r |-> rem]
    ELSE divmod_at(a, d, i - 1, (rem * 10000 + a[i]) % d,
                   <<(rem * 10000 + a[i]) \div d>> \o q)

\* a // d and a % d of a wide number and a plain integer 1 <= d <= 100000
floordiv(a, d) == trim(divmod_at(a, d, Len(a), 0, << >>).q)
mod(a, d) == divmod_at(a, d, Len(a), 0, << >>).r

\* truth value of an Optional[int] in an `if`: None and 0 are false
Truthy(x) == x # None /\ x[1] # wide(0)

\* truth value of an Optional[str] in an `and`: None and "" are false
TruthyStr(x) == x # None /\ Len(x[1]) > 0

DigitValue(c) ==
    CASE c = "0" -> 0 [] c = "1" -> 1 [] c = "2" -> 2 [] c = "3" -> 3
      [] c = "4" -> 4 [] c = "5" -> 5 [] c = "6" -> 6 [] c = "7" -> 7
      [] c = "8" -> 8 [] c = "9" -> 9

\* int(s) for a string of decimal digits
RECURSIVE int(_)
int(s) ==
    IF Len(s) = 1 THEN DigitValue(s[1])
    ELSE 10 * int(SubSeq(s, 1, Len(s) - 1)) + DigitValue(s[Len(s)])

\* json.dumps of the paste dict: the members in insertion order
json_dumps(p) ==
    << <<"content", p.content>>, <<"created_at", p.created_at>>,
       <<"ttl_seconds", p.ttl_seconds>>, <<"max_views", p.max_views>>,
       <<"view_count", p.view_count>> >>

\* json.loads of such a text: the dict back
json_loads(j) ==
    [content |-> j[1][2], created_at |-> j[2][2], ttl_seconds |-> j[3][2],
     max_views |-> j[4][2], view_count |-> j[5][2]]

----------------------------------------------------------------------------
(* app/redis_client.py                                                     *)

\* a variant of get_current_time that takes the header whatever TEST_MODE is
get_current_time_any_mode(test_now_ms) ==
    IF TruthyStr(test_now_ms) THEN int(test_now_ms[1]) ELSE clock

get_current_time(test_now_ms) ==
    IF testMode /\ TruthyStr(test_now_ms) THEN int(test_now_ms[1]) ELSE clock

----------------------------------------------------------------------------
(* The Redis commands the handlers use.  A key whose deadline has passed   *)
(* is never returned, whether or not the store has swept it yet.           *)

Live(s, id) ==
    /\ s[id].present
    /\ (IF s[id].deadline = None THEN TRUE
        ELSE less(wide(clock), s[id].deadline[1]))

\* GET key: the value or None
RedisGet(id) == IF Live(store, id) THEN Some(store[id].value) ELSE None

\* SET key value: overwrites the value and discards any time to live
RedisSet(s, id, v) ==
    [s EXCEPT ![id] = [present |-> TRUE, value |-> v, deadline |-> None]]

\* an EXPIRE that takes its argument for milliseconds
RedisExpire_ms(s, id, seconds) ==
    IF Live(s, id)
    THEN [s EXCEPT ![id].deadline = Some(plus(wide(clock), seconds))]
    ELSE s

\* EXPIRE key seconds: only an existing key gets a deadline
RedisExpire(s, id, seconds) ==
    IF Live(s, id)
    THEN [s EXCEPT ![id].deadline =
                Some(plus(wide(clock), times(seconds, 1000)))]
    ELSE s

\* DEL key
RedisDelete(s, id) == [s EXCEPT ![id] = Absent]

----------------------------------------------------------------------------
(* Responses.                                                              *)

NoResp ==
    [kind |-> "none", id |-> "", hdr |-> None, now |-> None, read |-> None,
     wrote |-> "none", status |-> 0, body |-> [none |-> TRUE]]

\* what a handler sent: to the request `kind` for `id` with header `hdr`,
\* having taken `now` from get_current_time and `read` from the store, and
\* having made the store write `wrote` ("none", "set" or "delete")
Resp(kind, id, hdr, now, read, wrote, status, body) ==
    [kind |-> kind, id |-> id, hdr |-> hdr, now |-> now, read |-> read,
     wrote |-> wrote, status |-> status, body |-> body]

\* the locals of a handler in flight; pc is where it stands:
\*   "loaded"  the store has served the get of get_paste, view_paste_html
\*   "delete"  get_paste found the paste expired; its delete is on its way
\*   "set"     get_paste passed the checks, or create_paste built its
\*             paste_data; the set is on its way
\*   "expire"  the store has served create_paste's set; its expire is on
\*             its way
\*   "deleted", "stored", "expired"  the store has served the handler's
\*             last call; the reply is on its way
\* paste_json is the text get returned, or the text create_paste sets
Handler(kind, paste_id, hdr, paste_json, pc, now) ==
    [kind |-> kind, paste_id |-> paste_id, hdr |-> hdr,
     paste_json |-> paste_json, pc |-> pc, now |-> now]

\* raise HTTPException(status_code=404, detail=...)
HTTPException(detail) == [detail |-> detail]

NotIssued == [issued |-> FALSE]

----------------------------------------------------------------------------
(* app/main.py                                                             *)

\* a variant of PasteCreate with ge=0 for ge=1
PasteCreateValid_ge0(content, ttl_seconds, max_views) ==
    /\ Len(content) >= 1
    /\ (IF ttl_seconds = None THEN TRUE
        ELSE ~less(ttl_seconds[1], wide(0)))
    /\ (IF max_views = None THEN TRUE ELSE max_views[1] >= 0)

\* PasteCreate: the field constraints pydantic enforces on the body
PasteCreateValid(content, ttl_seconds, max_views) ==
    /\ Len(content) >= 1
    /\ (IF ttl_seconds = None THEN TRUE
        ELSE ~less(ttl_seconds[1], wide(1)))
    /\ (IF max_views = None THEN TRUE ELSE max_views[1] >= 1)

\* paste["created_at"] + (paste["ttl_seconds"] * 1000)
expires_at_ms(paste) ==
    plus(wide(paste.created_at), times(paste.ttl_seconds[1], 1000))

\* get_paste: "Check TTL expiry"
get_paste_expired(paste, current_time) ==
    Truthy(paste.ttl_seconds)
        /\ ~less(wide(current_time), expires_at_ms(paste))

\* a variant of get_paste's check that allows one view too many
get_paste_limit_exceeded_gt(paste) ==
    paste.max_views # None /\ paste.view_count > paste.max_views[1]

\* get_paste: "Check view limit"
get_paste_limit_exceeded(paste) ==
    paste.max_views # None /\ paste.view_count >= paste.max_views[1]

\* a variant of view_paste_html's check that shows the paste at the expiry
\* instant
view_paste_html_expired_late(paste, current_time) ==
    Truthy(paste.ttl_seconds)
        /\ less(expires_at_ms(paste), wide(current_time))

\* view_paste_html: "Check expiry"
view_paste_html_expired(paste, current_time) ==
    Truthy(paste.ttl_seconds)
        /\ ~less(wide(current_time), expires_at_ms(paste))

\* view_paste_html: "Check view limit (don't increment for HTML view)"
view_paste_html_limit_exceeded(paste) ==
    paste.max_views # None /\ paste.view_count >= paste.max_views[1]

\* get_paste: "Calculate remaining views", after the increment
remaining_views(paste) ==
    IF paste.max_views # None
    THEN Some(paste.max_views[1] - paste.view_count)
    ELSE None

\* the binary exponent of a float whose whole part is the wide number n >= 1:
\* floor(log2(n))
RECURSIVE exponent(_)
exponent(n) ==
    IF less(n, wide(2)) THEN 0 ELSE 1 + exponent(floordiv(n, 2))

\* a / b rounded to the nearest integer, halves to the even one (a >= 0,
\* b > 0): the rounding of an IEEE 754 operation, and of fromtimestamp
round_half_even(a, b) ==
    LET q == a \div b
        r == a % b
    IN  IF 2 * r < b THEN q
        ELSE IF 2 * r > b THEN q + 1
        ELSE IF q % 2 = 0 THEN q ELSE q + 1

\* datetime.fromtimestamp(ms / 1000), ms a wide number, on a host whose zone
\* is utcoffset east of UTC: the naive local time, as seconds (wide) and
\* microseconds since 1970-01-01 00:00 of the local calendar; a ValueError
\* past the year 9999 (local day 2932897 and later).
\* ms / 1000 is a float division: the double nearest to the quotient, which
\* has fraction_bits bits after the binary point; fromtimestamp splits it
\* into whole seconds and fraction and rounds fraction * 1e6 to whole
\* microseconds.  With more than 19 fraction bits (below 2^33 seconds) the
\* double is less than half a microsecond from the quotient and the
\* microseconds are those of ms; from 2^33 seconds on they are those of the
\* rounded double.  Before the year 9999 ends the fraction never rounds up
\* to the next second.
fromtimestamp(ms, utcoffset) ==
    LET seconds == floordiv(ms, 1000)
        millis == mod(ms, 1000)
        local == plus(seconds, wide(utcoffset))
        fraction_bits == 52 - exponent(seconds)
        fraction == round_half_even(millis * 2^fraction_bits, 1000)
        usec == IF fraction_bits > 19
                THEN millis * 1000
                ELSE round_half_even(fraction * 1000000, 2^fraction_bits)
    IN  IF ~less(floordiv(local, 86400), wide(2932897))
        THEN [error |-> "ValueError"]
        ELSE [sec |-> local, usec |-> usec]

\* get_paste: "Calculate expires_at": the local time of expires_at_ms / 1000
\* as isoformat() prints it, with a Z appended whatever the zone
expires_at(paste, utcoffset) ==
    IF Truthy(paste.ttl_seconds)
    THEN Some(fromtimestamp(expires_at_ms(paste), utcoffset))
    ELSE None

\* a variant of get_paste that deletes the record it finds used up
get_paste_next_purging(paste, current_time) ==
    IF get_paste_expired(paste, current_time) THEN "delete"
    ELSE IF get_paste_limit_exceeded(paste) THEN "delete"
    ELSE "set"

\* get_paste from "Check TTL" to "Increment view count": what the handler
\* goes on to, the delete of an expired paste, the 404 of a used-up one, or
\* the set of the incremented record
get_paste_next(paste, current_time) ==
    IF get_paste_expired(paste, current_time) THEN "delete"
    ELSE IF get_paste_limit_exceeded(paste) THEN "refuse"
    ELSE "set"

\* the processes busy with a request
Busy == BagCardinality(inflight)

\* a process is free to take a request
WorkerFree == Busy < Cardinality(Workers)

TypeOK ==
    /\ clock \in ClockPoints
    /\ testMode \in BOOLEAN
    /\ \A id \in Ids : store[id].present \in BOOLEAN
    /\ IsABag(inflight) /\ Busy <= Cardinality(Workers)
    /\ successes \in [Ids -> 0..MaxReads]
    /\ previewed \in [Ids -> BOOLEAN]

Init ==
    /\ clock \in ClockPoints
    /\ testMode \in BOOLEAN
    /\ store = [id \in Ids |-> Absent]
    /\ inflight = EmptyBag
    /\ created = [id \in Ids |-> NotIssued]
    /\ successes = [id \in Ids |-> 0]
    /\ previewed = [id \in Ids |-> FALSE]
    /\ lastResp = NoResp

\* a variant of health_check without the except clause: the exception of
\* ping reaches the framework, which answers 500 Internal Server Error
health_check_uncaught(ping) ==
    IF ping = "PONG"
    THEN [status |-> 200, body |-> [ok |-> TRUE]]
    ELSE [status |-> 500, body |-> HTTPException("Internal Server Error")]

\* health_check: {"ok": True} when ping returned, JSONResponse({"ok": False},
\* status_code=500) when it raised anything
health_check(ping) ==
    IF ping = "PONG"
    THEN [status |-> 200, body |-> [ok |-> TRUE]]
    ELSE [status |-> 500, body |-> [ok |-> FALSE]]

\* GET /api/healthz; `ping` is what redis_client.ping() did, kept in the
\* response's `read`
HealthCheck(ping) ==
    /\ WorkerFree
    /\ lastResp' = Resp("health", "", None, None, Some(ping), "none",
                        health_check(ping).status, health_check(ping).body)
    /\ UNCHANGED <<clock, testMode, store, inflight, created,
                   successes, previewed>>

\* POST /api/pastes with a body pydantic rejects: 422, the handler never
\* runs and no header is read
CreatePasteInvalid(content, ttl_seconds, max_views) ==
    /\ WorkerFree
    /\ ~PasteCreateValid(content, ttl_seconds, max_views)
    /\ lastResp' = Resp("create", "", None, None, None, "none", 422,
                        HTTPException("validation error"))
    /\ UNCHANGED <<clock, testMode, store, inflight, created,
                   successes, previewed>>

\* create_paste on the host, up to redis_client.set: the token, the time,
\* paste_data and its json.dumps (paste_id is the token
\* secrets.token_urlsafe(8) returns, never one it returned before)
CreatePasteBegin(paste_id, content, ttl_seconds, max_views, hdr) ==
    /\ WorkerFree
    /\ PasteCreateValid(content, ttl_seconds, max_views)
    /\ ~created[paste_id].issued
    /\ LET current_time == get_current_time(hdr)
           paste_data == [content |-> content,
                          created_at |-> current_time,
                          ttl_seconds |-> ttl_seconds,
                          max_views |-> max_views,
                          view_count |-> 0]
       IN
       /\ inflight' = inflight (+) SetToBag({Handler("create", paste_id, hdr,
                                                 Some(json_dumps(paste_data)),
                                                 "set", Some(current_time))})
       /\ created' = [created EXCEPT ![paste_id] =
                          [issued |-> TRUE, paste |-> paste_data]]
    /\ lastResp' = NoResp
    /\ UNCHANGED <<clock, testMode, store, successes, previewed>>

\* create_paste: the store serves redis_client.set; the handler goes on to
\* redis_client.expire when paste.ttl_seconds is truthy
CreatePasteSet(l) ==
    /\ BagIn(l, inflight)
    /\ l.kind = "create"
    /\ l.pc = "set"
    /\ store' = RedisSet(store, l.paste_id, l.paste_json[1])
    /\ inflight' = (inflight (-) SetToBag({l}))
          (+) SetToBag({[l EXCEPT !.pc =
                            IF Truthy(json_loads(l.paste_json[1]).ttl_seconds)
                            THEN "expire" ELSE "stored"]})
    /\ lastResp' = NoResp
    /\ UNCHANGED <<clock, testMode, created, successes, previewed>>

\* create_paste: the store serves redis_client.expire
CreatePasteExpire(l) ==
    /\ BagIn(l, inflight)
    /\ l.kind = "create"
    /\ l.pc = "expire"
    /\ store' = RedisExpire(store, l.paste_id,
                            json_loads(l.paste_json[1]).ttl_seconds[1])
    /\ inflight' = (inflight (-) SetToBag({l}))
          (+) SetToBag({[l EXCEPT !.pc = "expired"]})
    /\ lastResp' = NoResp
    /\ UNCHANGED <<clock, testMode, created, successes, previewed>>

\* create_paste on the host, from the reply of its last store call to the
\* answer: the url and the return
CreatePasteReturn(l) ==
    /\ BagIn(l, inflight)
    /\ l.kind = "create"
    /\ l.pc \in {"stored", "expired"}
    /\ lastResp' = Resp("create", l.paste_id, l.hdr, l.now, None, "set", 200,
                        [id |-> l.paste_id, url |-> <<"/p/", l.paste_id>>])
    /\ inflight' = inflight (-) SetToBag({l})
    /\ UNCHANGED <<clock, testMode, store, created, successes, previewed>>

\* the get_paste handlers in flight on one id
InFlight(id) ==
    BagCardinality([l \in {x \in DOMAIN inflight :
                              x.kind = "fetch" /\ x.paste_id = id}
                        |-> inflight[l]])

\* the get_paste handlers in flight, all ids together
Fetching == {l \in DOMAIN inflight : l.kind = "fetch"}

\* get_paste: the store serves redis_client.get.  The reads of one paste are
\* bounded: neither the reads answered or in flight nor the view_count the
\* store holds go beyond MaxReads
GetPasteGet(paste_id, hdr) ==
    /\ WorkerFree
    /\ successes[paste_id] + InFlight(paste_id) < MaxReads
    /\ store[paste_id].present =>
           json_loads(store[paste_id].value).view_count < MaxReads
    /\ inflight' = inflight (+) SetToBag({Handler("fetch", paste_id, hdr,
                                                  RedisGet(paste_id),
                                                  "loaded", None)})
    /\ lastResp' = NoResp
    /\ UNCHANGED <<clock, testMode, store, created, successes,
                   previewed>>

\* get_paste on the host, from the reply of the get to the next store call:
\* the 404 of a missing key, json.loads, get_current_time, the checks
GetPasteCheck(l) ==
    /\ BagIn(l, inflight)
    /\ l.kind = "fetch"
    /\ l.pc = "loaded"
    /\ IF l.paste_json = None
       THEN /\ lastResp' = Resp("fetch", l.paste_id, l.hdr, None, None,
                                "none", 404,
                                HTTPException("Paste not found"))
            /\ inflight' = inflight (-) SetToBag({l})
       ELSE LET paste == json_loads(l.paste_json[1])
                current_time == get_current_time(l.hdr)
                next == get_paste_next(paste, current_time)
            IN
            IF next = "refuse"
            THEN /\ lastResp' = Resp("fetch", l.paste_id, l.hdr,
                                     Some(current_time), l.paste_json,
                                     "none", 404,
                                     HTTPException("View limit exceeded"))
                 /\ inflight' = inflight (-) SetToBag({l})
            ELSE /\ lastResp' = NoResp
                 /\ inflight' = (inflight (-) SetToBag({l}))
                       (+) SetToBag({[l EXCEPT !.pc = next,
                                               !.now = Some(current_time)]})
    /\ UNCHANGED <<clock, testMode, store, created, successes,
                   previewed>>

\* get_paste: the store serves redis_client.delete of the expired paste, or
\* redis_client.set of the record with view_count incremented
GetPasteWrite(l) ==
    /\ BagIn(l, inflight)
    /\ l.kind = "fetch"
    /\ l.pc \in {"delete", "set"}
    /\ LET paste == json_loads(l.paste_json[1])
           viewed == [paste EXCEPT !.view_count = @ + 1]
       IN
       IF l.pc = "delete"
       THEN /\ store' = RedisDelete(store, l.paste_id)
            /\ inflight' = (inflight (-) SetToBag({l}))
                  (+) SetToBag({[l EXCEPT !.pc = "deleted"]})
       ELSE /\ store' = RedisSet(store, l.paste_id, json_dumps(viewed))
            /\ inflight' = (inflight (-) SetToBag({l}))
                  (+) SetToBag({[l EXCEPT !.pc = "stored"]})
    /\ lastResp' = NoResp
    /\ UNCHANGED <<clock, testMode, created, successes, previewed>>

\* get_paste on the host, from the reply of its delete or set to the answer,
\* on a host whose time zone is utcoffset
GetPasteReturn(l, utcoffset) ==
    /\ BagIn(l, inflight)
    /\ l.kind = "fetch"
    /\ l.pc \in {"deleted", "stored"}
    /\ LET paste == json_loads(l.paste_json[1])
           viewed == [paste EXCEPT !.view_count = @ + 1]
       IN
       IF l.pc = "deleted"
       THEN /\ lastResp' = Resp("fetch", l.paste_id, l.hdr, l.now,
                                l.paste_json, "delete", 404,
                                HTTPException("Paste expired"))
            /\ UNCHANGED successes
       ELSE IF expires_at(viewed, utcoffset) = Some([error |-> "ValueError"])
       THEN /\ lastResp' = Resp("fetch", l.paste_id, l.hdr, l.now,
                                l.paste_json, "set", 500,
                                HTTPException("Internal Server Error"))
            /\ UNCHANGED successes
       ELSE /\ lastResp' = Resp("fetch", l.paste_id, l.hdr, l.now,
                                l.paste_json, "set", 200,
                                [content |-> viewed.content,
                                 remaining_views |-> remaining_views(viewed),
                                 expires_at |-> expires_at(viewed, utcoffset)])
            /\ successes' = [successes EXCEPT ![l.paste_id] = @ + 1]
    /\ inflight' = inflight (-) SetToBag({l})
    /\ UNCHANGED <<clock, testMode, store, created, previewed>>

\* view_paste_html: the store serves redis_client.get, its only store call
ViewPasteHtmlGet(paste_id, hdr) ==
    /\ WorkerFree
    /\ inflight' = inflight (+) SetToBag({Handler("preview", paste_id, hdr,
                                                  RedisGet(paste_id),
                                                  "loaded", None)})
    /\ lastResp' = NoResp
    /\ UNCHANGED <<clock, testMode, store, created, successes,
                   previewed>>

\* view_paste_html on the host, from the reply of the get to the answer: the
\* 404 of a missing key, json.loads, get_current_time(None), the checks, the
\* template
ViewPasteHtmlRender(l) ==
    /\ BagIn(l, inflight)
    /\ l.kind = "preview"
    /\ IF l.paste_json = None
       THEN lastResp' = Resp("preview", l.paste_id, l.hdr, None, None,
                             "none", 404, HTTPException("Paste not found"))
       ELSE LET paste == json_loads(l.paste_json[1])
                current_time == get_current_time(None)
            IN
            IF view_paste_html_expired(paste, current_time)
            THEN lastResp' = Resp("preview", l.paste_id, l.hdr,
                                  Some(current_time), l.paste_json,
                                  "none", 404,
                                  HTTPException("Paste expired"))
            ELSE IF view_paste_html_limit_exceeded(paste)
            THEN lastResp' = Resp("preview", l.paste_id, l.hdr,
                                  Some(current_time), l.paste_json,
                                  "none", 404,
                                  HTTPException("View limit exceeded"))
            ELSE lastResp' = Resp("preview", l.paste_id, l.hdr,
                                  Some(current_time), l.paste_json,
                                  "none", 200, [content |-> paste.content])
    /\ previewed' = [previewed EXCEPT ![l.paste_id] =
                         @ \/ lastResp'.status = 200]
    /\ inflight' = inflight (-) SetToBag({l})
    /\ UNCHANGED <<clock, testMode, store, created, successes>>

\* the store sweeps a key whose time to live has run out
StoreEvict(id) ==
    /\ store[id].present
    /\ ~Live(store, id)
    /\ store' = RedisDelete(store, id)
    /\ lastResp' = NoResp
    /\ UNCHANGED <<clock, testMode, inflight, created, successes,
                   previewed>>

\* time passes
Tick ==
    /\ \E t \in ClockPoints : t > clock /\ clock' = t
    /\ lastResp' = NoResp
    /\ UNCHANGED <<testMode, store, inflight, created, successes,
                   previewed>>

\* the create_paste handlers in flight
Creating == {l \in DOMAIN inflight : l.kind = "create"}

\* A client asks for an id it was given or for one it guesses; the 64 random
\* bits of the token keep a guess from hitting the id of a create_paste that
\* has not yet returned.
Requestable(id) == \A l \in Creating : l.paste_id # id

Next ==
    \/ \E ping \in PingOutcomes : HealthCheck(ping)
    \/ \E b \in Bodies :
          CreatePasteInvalid(b.content, b.ttl_seconds, b.max_views)
    \/ \E t \in OneToken, b \in Bodies, h \in Headers :
          CreatePasteBegin(t, b.content, b.ttl_seconds, b.max_views, h)
    \/ \E l \in DOMAIN inflight : CreatePasteSet(l)
    \/ \E l \in DOMAIN inflight : CreatePasteExpire(l)
    \/ \E l \in DOMAIN inflight : CreatePasteReturn(l)
    \/ \E id \in OneToken, h \in Headers : Requestable(id) /\ GetPasteGet(id, h)
    \/ \E l \in DOMAIN inflight : GetPasteCheck(l)
    \/ \E l \in DOMAIN inflight : GetPasteWrite(l)
    \/ \E l \in DOMAIN inflight, z \in UtcOffsets : GetPasteReturn(l, z)
    \/ \E id \in OneToken, h \in Headers :
          Requestable(id) /\ ViewPasteHtmlGet(id, h)
    \/ \E l \in DOMAIN inflight : ViewPasteHtmlRender(l)
    \/ \E id \in Ids : StoreEvict(id)
    \/ Tick

\* requests of any kind overlap freely
Spec == Init /\ [][Next]_vars

\* the same, with the get_paste requests one after another: a get_paste
\* starts only when none is in flight
SeqNext ==
    \/ \E ping \in PingOutcomes : HealthCheck(ping)
    \/ \E b \in Bodies :
          CreatePasteInvalid(b.content, b.ttl_seconds, b.max_views)
    \/ \E t \in OneToken, b \in Bodies, h \in Headers :
          CreatePasteBegin(t, b.content, b.ttl_seconds, b.max_views, h)
    \/ \E l \in DOMAIN inflight : CreatePasteSet(l)
    \/ \E l \in DOMAIN inflight : CreatePasteExpire(l)
    \/ \E l \in DOMAIN inflight : CreatePasteReturn(l)
    \/ \E id \in OneToken, h \in Headers :
          Requestable(id) /\ Fetching = {} /\ GetPasteGet(id, h)
    \/ \E l \in DOMAIN inflight : GetPasteCheck(l)
    \/ \E l \in DOMAIN inflight : GetPasteWrite(l)
    \/ \E l \in DOMAIN inflight, z \in UtcOffsets : GetPasteReturn(l, z)
    \/ \E id \in OneToken, h \in Headers :
          Requestable(id) /\ ViewPasteHtmlGet(id, h)
    \/ \E l \in DOMAIN inflight : ViewPasteHtmlRender(l)
    \/ \E id \in Ids : StoreEvict(id)
    \/ Tick

SeqSpec == Init /\ [][SeqNext]_vars

\* two pastes side by side, for what one paste's requests do to the other
\* paste's key: requests without the x-test-now-ms header and without
\* TEST_MODE, pastes of at most one view, get_paste requests one after
\* another, no health checks
PairBodies ==
    {[content |-> "a", ttl_seconds |-> Some(wide(1)), max_views |-> None],
     [content |-> "a", ttl_seconds |-> None, max_views |-> Some(1)],
     [content |-> "", ttl_seconds |-> None, max_views |-> None]}

PairNext ==
    \/ \E b \in PairBodies :
          CreatePasteInvalid(b.content, b.ttl_seconds, b.max_views)
    \/ \E t \in TwoTokens, b \in PairBodies :
          CreatePasteBegin(t, b.content, b.ttl_seconds, b.max_views, None)
    \/ \E l \in DOMAIN inflight : CreatePasteSet(l)
    \/ \E l \in DOMAIN inflight : CreatePasteExpire(l)
    \/ \E l \in DOMAIN inflight : CreatePasteReturn(l)
    \/ \E id \in Ids :
          Requestable(id) /\ Fetching = {} /\ GetPasteGet(id, None)
    \/ \E l \in DOMAIN inflight : GetPasteCheck(l)
    \/ \E l \in DOMAIN inflight : GetPasteWrite(l)
    \/ \E l \in DOMAIN inflight : GetPasteReturn(l, 0)
    \/ \E id \in Ids : Requestable(id) /\ ViewPasteHtmlGet(id, None)
    \/ \E l \in DOMAIN inflight : ViewPasteHtmlRender(l)
    \/ \E id \in Ids : StoreEvict(id)
    \/ Tick

\* TEST_MODE unset, as deployed
PairInit == Init /\ ~testMode

PairSpec == PairInit /\ [][PairNext]_vars

----------------------------------------------------------------------------
(* What the properties below speak about.                                  *)

\* the paste stored under id, decoded
Stored(id) == json_loads(store[id].value)

\* the paste as create_paste wrote it
Original(id) == created[id].paste

HasLimit(id) == created[id].issued /\ Original(id).max_views # None
Limit(id) == Original(id).max_views[1]
HasTtl(id) == created[id].issued /\ Original(id).ttl_seconds # None

\* created_at + ttl_seconds*1000 of the paste as created, a wide number
ExpiryOf(id) ==
    plus(wide(Original(id).created_at),
         times(Original(id).ttl_seconds[1], 1000))

\* the time t lies before the wide number w
Before(t, w) == less(wide(t), w)

\* the last step answered a get_paste (fetch) or view_paste_html (preview)
\* request for id that found a record in the store
Answered(kind, id) ==
    lastResp.kind = kind /\ lastResp.id = id /\ lastResp.read # None

\* the record that request read, decoded
ReadPaste == json_loads(lastResp.read[1])

NotFoundBody == HTTPException("Paste not found")

\* the get_paste requests for id that have had their view counted: those
\* answered 200 and those whose set the store has served
Succeeded(id) ==
    successes[id]
        + BagCardinality([l \in {x \in DOMAIN inflight :
                                    /\ x.kind = "fetch"
                                    /\ x.paste_id = id
                                    /\ x.pc = "stored"}
                              |-> inflight[l]])

\* the time the caller of the last answered request meant: the
\* x-test-now-ms it sent in test mode, else the time the handler took
CallerTime ==
    IF testMode /\ TruthyStr(lastResp.hdr) THEN int(lastResp.hdr[1])
    ELSE lastResp.now[1]

\* the time the claims give a request with header h: the caller's, when
\* TEST_MODE is "1" and the header carries a timestamp, the system clock in
\* every other case
TimeOwed(h) == IF testMode /\ h # None THEN int(h[1]) ELSE clock

\* the store has just served the get of the get_paste handler l
GetServed(l) ==
    /\ l.kind = "fetch"
    /\ l.pc = "loaded"
    /\ CopiesIn(l, inflight') > CopiesIn(l, inflight)

\* a get_paste for the created paste of id, sent at a time (the caller's)
\* at which the paste is not expired, finds the record in the store
FoundWhenDue(id) ==
    \A l \in DOMAIN inflight' :
        (/\ GetServed(l)
         /\ l.paste_id = id
         /\ created[id].issued
         /\ (HasTtl(id) => Before(TimeOwed(l.hdr), ExpiryOf(id))))
            => l.paste_json # None

\* the store holds the record of id with its view limit used up
Exhausted(id) ==
    /\ store[id].present
    /\ HasLimit(id)
    /\ Stored(id).view_count >= Limit(id)

----------------------------------------------------------------------------
(* C1..C10                                                                 *)

\* C1: for a paste created with max_views = N, however the get_paste
\* requests on its id overlap, at most N of them return the content.
C1_SuccessesWithinLimit ==
    \A id \in Ids : HasLimit(id) => successes[id] <= Limit(id)

\* C2: every stored record with max_views set has
\* 0 <= view_count <= max_views.
C2_ViewCountWithinLimit ==
    \A id \in Ids :
        (store[id].present /\ Stored(id).max_views # None) =>
            /\ 0 <= Stored(id).view_count
            /\ Stored(id).view_count <= Stored(id).max_views[1]

\* a record read up to a limit of two or more
C2_Witness ==
    \E id \in Ids :
        /\ store[id].present
        /\ Stored(id).max_views # None
        /\ Stored(id).max_views[1] >= 2
        /\ Stored(id).view_count = Stored(id).max_views[1]

\* C3: exhaustion is absorbing. From a state whose stored record has
\* view_count >= max_views, no step brings the stored view_count below
\* max_views, so that no get_paste or view_paste_html served by the store
\* from then on finds a view left.
C3_ExhaustionAbsorbing ==
    [][\A id \in Ids :
          (Exhausted(id) /\ store'[id].present) =>
              json_loads(store'[id].value).view_count >= Limit(id)]_vars

\* C4: no read returns the content of a paste whose TTL has elapsed: a
\* get_paste or view_paste_html that took the time now >= created_at +
\* ttl_seconds*1000 answers 404, whatever the view count and whatever ran
\* before or beside it.
C4_NoExpiredContent ==
    \A id \in Ids, kind \in {"fetch", "preview"} :
        (/\ Answered(kind, id)
         /\ HasTtl(id)
         /\ ~Before(lastResp.now[1], ExpiryOf(id)))
            => lastResp.status = 404

\* a preview refused at or after the expiry, the view limit not being the
\* reason
C4_Witness ==
    \E id \in Ids :
        /\ Answered("preview", id)
        /\ HasTtl(id)
        /\ ~Before(lastResp.now[1], ExpiryOf(id))
        /\ ~view_paste_html_limit_exceeded(ReadPaste)
        /\ lastResp.status = 404

\* C5: the 404 of get_paste and of view_paste_html is the same response
\* whether the id is absent, the paste expired or its view limit used up.
C5_NotFoundIndistinguishable ==
    (lastResp.kind \in {"fetch", "preview"} /\ lastResp.status = 404)
        => lastResp.body = NotFoundBody

\* C6: with max_views = N and the get_paste requests one after another, a
\* read of the unexpired paste finds the record, the first N reads succeed,
\* the k-th returning remaining_views = N - k, every later one is refused
\* with 404, and no more than N succeed.
C6_SequentialReads ==
    /\ [](\A id \in Ids :
            HasLimit(id) =>
                /\ successes[id] <= Limit(id)
                /\ (Answered("fetch", id) /\ lastResp.status = 200) =>
                       lastResp.body.remaining_views
                           = Some(Limit(id) - successes[id])
                /\ (/\ Answered("fetch", id)
                    /\ (HasTtl(id) =>
                           Before(lastResp.now[1], ExpiryOf(id)))) =>
                       \/ lastResp.status = 200
                       \/ lastResp.status = 404 /\ successes[id] = Limit(id))
    /\ [][\A id \in Ids : HasLimit(id) => FoundWhenDue(id)]_vars

\* C7: for a paste with ttl_seconds = T created at t0, get_paste at a time
\* now < t0 + T*1000 finds the record and, the view limit not exhausted,
\* succeeds; at now >= t0 + T*1000 it fails with 404.
C7_TtlBoundary ==
    /\ [](\A id \in Ids :
            (/\ Answered("fetch", id)
             /\ HasTtl(id)
             /\ ~(ReadPaste.max_views # None
                    /\ ReadPaste.view_count >= ReadPaste.max_views[1]))
                => IF Before(lastResp.now[1], ExpiryOf(id))
                   THEN lastResp.status = 200
                   ELSE lastResp.status = 404)
    /\ [][\A id \in Ids : HasTtl(id) => FoundWhenDue(id)]_vars

\* C8, the consequence for max_views = 1 with the get_paste requests one
\* after another: every preview of the unexpired paste not yet read shows
\* it, and whatever was previewed, the first get_paste succeeds and the next
\* fails.
C8_PreviewsThenOneRead ==
    \A id \in Ids :
        (HasLimit(id) /\ Limit(id) = 1) =>
            /\ (/\ Answered("preview", id)
                /\ (HasTtl(id) => Before(lastResp.now[1], ExpiryOf(id)))
                /\ ReadPaste.view_count = 0) => lastResp.status = 200
            /\ (/\ Answered("fetch", id)
                /\ (HasTtl(id) => Before(lastResp.now[1], ExpiryOf(id))))
                   => successes[id] = 1

\* C8: view_paste_html never consumes a view: succeeding or failing, it
\* leaves the whole store as it was; so previews of a paste with
\* max_views = 1 leave it its one read (C8_PreviewsThenOneRead).
C8_PreviewNeverConsumes ==
    /\ [][(\/ \E id \in Ids, h \in Headers : ViewPasteHtmlGet(id, h)
            \/ \E l \in DOMAIN inflight : ViewPasteHtmlRender(l))
              => store' = store]_vars
    /\ []C8_PreviewsThenOneRead

\* C9: the stored view_count equals the number of get_paste requests on the
\* id that have succeeded (their set served), however the requests overlap.
C9_ViewCountExact ==
    \A id \in Ids :
        store[id].present => Stored(id).view_count = Succeeded(id)

\* C10: create_paste answered at time t0 and followed at once by
\* view_paste_html for the returned id at the same t0 (the same injected
\* x-test-now-ms in test mode, the same clock otherwise) shows exactly the
\* content created: a view_paste_html that read the record as created, for
\* a caller whose time is created_at, answers 200 with that content.
C10_CreateThenPreview ==
    \A id \in Ids :
        (/\ Answered("preview", id)
         /\ created[id].issued
         /\ ReadPaste = Original(id)
         /\ CallerTime = Original(id).created_at)
            => /\ lastResp.status = 200
               /\ lastResp.body = [content |-> Original(id).content]

----------------------------------------------------------------------------
(* C11..C20                                                                *)

\* the last step answered a get_paste request for id that found a record
\* whose time to live, as created, had not run out at the handler's time
AnsweredUnexpired(id) ==
    /\ Answered("fetch", id)
    /\ created[id].issued
    /\ (HasTtl(id) => Before(lastResp.now[1], ExpiryOf(id)))

\* C11: a paste created without max_views is never refused for its views:
\* every get_paste of the unexpired paste finds its record and succeeds, and
\* the answer carries remaining_views null.
C11_NoLimitNoRefusal ==
    /\ [](\A id \in Ids :
            (AnsweredUnexpired(id) /\ ~HasLimit(id)) =>
                /\ lastResp.status = 200
                /\ lastResp.body.remaining_views = None)
    /\ [][\A id \in Ids :
            (created[id].issued /\ ~HasLimit(id)) => FoundWhenDue(id)]_vars

\* C12: a get_paste that finds the record's time to live run out answers
\* 404 having deleted the key and written nothing else, and when it answers
\* the key is absent.
C12_ExpiredReadDeletes ==
    \A id \in Ids :
        (/\ Answered("fetch", id)
         /\ HasTtl(id)
         /\ ~Before(lastResp.now[1], ExpiryOf(id)))
            => /\ lastResp.status = 404
               /\ lastResp.wrote = "delete"
               /\ ~store[id].present

\* a paste as the claims want it: content not empty, ttl_seconds and
\* max_views absent or at least 1
WellFormed(paste) ==
    /\ paste.content # ""
    /\ (paste.ttl_seconds # None => ~less(paste.ttl_seconds[1], wide(1)))
    /\ (paste.max_views # None => paste.max_views[1] >= 1)

\* C13: create_paste with empty content, or with ttl_seconds or max_views
\* below 1, is refused before the store is touched: the 422 step leaves the
\* store as it was and issues no id, and no id is ever issued for, and no
\* record ever stored of, such a body.
C13_InvalidInputRejected ==
    /\ [][(lastResp'.kind = "create" /\ lastResp'.status = 422) =>
              /\ store' = store
              /\ created' = created
              /\ lastResp'.id = ""]_vars
    /\ [](\A id \in Ids :
            /\ created[id].issued => WellFormed(Original(id))
            /\ store[id].present => WellFormed(Stored(id)))

\* a body has just been refused while a paste created before is stored
C13_Witness ==
    /\ lastResp.kind = "create"
    /\ lastResp.status = 422
    /\ \E id \in Ids : store[id].present /\ created[id].issued

\* C14: health_check never raises. It answers ok = true when ping returned
\* and, whatever ping raised, the value ok = false (with status 500) rather
\* than an error of the framework; the store is left as it was.
C14_HealthCheckTotal ==
    /\ [][lastResp'.kind = "health" => store' = store]_vars
    /\ [](lastResp.kind = "health" =>
            IF lastResp.read = Some("PONG")
            THEN lastResp.status = 200 /\ lastResp.body = [ok |-> TRUE]
            ELSE lastResp.status = 500 /\ lastResp.body = [ok |-> FALSE])

\* a health check has just answered ok = false while a paste is stored
C14_Witness ==
    /\ lastResp.kind = "health"
    /\ lastResp.read # Some("PONG")
    /\ lastResp.body = [ok |-> FALSE]
    /\ \E id \in Ids : store[id].present

\* C15: deletion is absorbing. Once the key of an issued id is gone from the
\* store, by get_paste's delete or by the store's eviction, no step writes
\* it again: only create_paste writes an absent key, and it never reuses an
\* id.
C15_DeletionAbsorbing ==
    [][\A id \in Ids :
          (created[id].issued /\ Requestable(id) /\ ~store[id].present)
              => ~store'[id].present]_vars

\* C16: a get_paste that answers 404 because the id is absent, or because
\* the unexpired record it read has view_count >= max_views, has made no
\* store write, and its answer leaves the store exactly as it was.
C16_RefusalLeavesStore ==
    [][(/\ lastResp'.kind = "fetch"
        /\ lastResp'.status = 404
        /\ IF lastResp'.read = None
           THEN TRUE
           ELSE LET paste == json_loads(lastResp'.read[1]) IN
                /\ paste.max_views # None
                /\ paste.view_count >= paste.max_views[1]
                /\ ~(/\ paste.ttl_seconds # None
                     /\ ~Before(lastResp'.now[1],
                                plus(wide(paste.created_at),
                                     times(paste.ttl_seconds[1], 1000)))))
          => (lastResp'.wrote = "none" /\ store' = store)]_vars

\* a get_paste has just been refused for the view limit, the used-up record
\* still stored
C16_Witness ==
    \E id \in Ids :
        /\ Answered("fetch", id)
        /\ lastResp.status = 404
        /\ lastResp.body = HTTPException("View limit exceeded")
        /\ Exhausted(id)
        /\ lastResp.read = Some(store[id].value)

\* create_paste has just answered 200 with id
Created(id) ==
    lastResp.kind = "create" /\ lastResp.status = 200 /\ lastResp.id = id

\* the store holds under id the paste of the request as create_paste built
\* it: its content, ttl_seconds and max_views, created_at the handler's
\* time, view_count 0, and a time to live exactly when ttl_seconds was
\* given, of ttl_seconds: the store counts it from the moment it served
\* expire, which lies between the handler's reading of the system clock and
\* its answer
HoldsAsCreated(id) ==
    /\ store[id].present
    /\ Stored(id).content = Original(id).content
    /\ Stored(id).ttl_seconds = Original(id).ttl_seconds
    /\ Stored(id).max_views = Original(id).max_views
    /\ Stored(id).created_at = lastResp.now[1]
    /\ Stored(id).view_count = 0
    /\ IF HasTtl(id)
       THEN /\ store[id].deadline # None
            /\ ~less(store[id].deadline[1], ExpiryOf(id))
            /\ ~less(plus(wide(clock),
                          times(Original(id).ttl_seconds[1], 1000)),
                     store[id].deadline[1])
       ELSE store[id].deadline = None

\* a step of the create_paste handler that draws or has drawn the token id
CreateStep(id) ==
    \/ ~created[id].issued /\ created'[id].issued
    \/ \E l \in Creating :
          l.paste_id = id /\ CopiesIn(l, inflight') < CopiesIn(l, inflight)

\* no step of a create_paste handler changes the key of another id
CreateLeavesOthers ==
    \A id \in Ids :
        CreateStep(id) => \A other \in Ids \ {id} : store'[other] = store[other]

\* C17 as claimed: when create_paste answers with an id, the store holds
\* under that id the content, ttl_seconds and max_views of the request with
\* created_at the handler's time and view_count 0, the key has a time to
\* live in the store, of ttl_seconds, exactly when ttl_seconds was given,
\* and no step of create_paste changes another key.
C17_CreateReturnsStored ==
    /\ [](\A id \in Ids :
            Created(id) => (created[id].issued /\ HoldsAsCreated(id)))
    /\ [][CreateLeavesOthers]_vars

\* C17, amended: when create_paste answers with an id, the store holds the
\* record as above, with a time to live of ttl_seconds exactly when
\* ttl_seconds was given, unless ttl_seconds was given and the store has
\* evicted the key before the answer left; and no step of create_paste
\* changes another key.
C17_CreateEffect ==
    /\ [](\A id \in Ids :
            Created(id) =>
                /\ created[id].issued
                /\ IF store[id].present THEN HoldsAsCreated(id)
                                         ELSE HasTtl(id))
    /\ [][CreateLeavesOthers]_vars

\* create_paste has just answered for a paste with ttl_seconds while the
\* paste created before it is stored, already read once
C17_Witness ==
    \E id \in Ids, other \in Ids :
        /\ other # id
        /\ lastResp.kind = "create"
        /\ lastResp.status = 200
        /\ lastResp.id = id
        /\ HasTtl(id)
        /\ store[id].present
        /\ store[id].deadline # None
        /\ store[other].present
        /\ Stored(other).view_count = 1

\* what get_paste decides on the same reply of the store, with header hdr,
\* at the present time: TRUE when it passes the checks of lines 71, 80, 87
GetPasteAccepts(paste_json, hdr) ==
    IF paste_json = None
    THEN FALSE
    ELSE get_paste_next(json_loads(paste_json[1]), get_current_time(hdr))
             = "set"

\* C18: view_paste_html and get_paste decide alike: for every record the
\* store returns, every id and every request time, view_paste_html shows the
\* paste exactly when get_paste, given the same record and the same
\* x-test-now-ms at the same time, would return it.
C18_SameDecision ==
    lastResp.kind = "preview" =>
        ((lastResp.status = 200)
            = GetPasteAccepts(lastResp.read, lastResp.hdr))

\* C19: create_paste stamps created_at, and get_paste decides expiry, with
\* the caller's x-test-now-ms only when TEST_MODE is "1" and the header is
\* sent, and with the system clock otherwise; so with TEST_MODE unset the
\* header changes nothing.
C19_TimeSource ==
    /\ [][\A l \in DOMAIN inflight' :
            (/\ l.kind = "fetch"
             /\ l.pc \in {"delete", "set"}
             /\ CopiesIn(l, inflight') > CopiesIn(l, inflight))
                => /\ l.now = Some(TimeOwed(l.hdr))
                   /\ l.pc = get_paste_next(json_loads(l.paste_json[1]),
                                            TimeOwed(l.hdr))]_vars
    /\ [][(/\ lastResp'.kind = "fetch"
            /\ lastResp'.read # None
            /\ lastResp'.wrote = "none")
               => lastResp'.now = Some(TimeOwed(lastResp'.hdr))]_vars
    /\ [][\A l \in DOMAIN inflight' :
            (/\ l.kind = "create"
             /\ l.pc = "set"
             /\ CopiesIn(l, inflight') > CopiesIn(l, inflight))
                => /\ l.now = Some(TimeOwed(l.hdr))
                   /\ json_loads(l.paste_json[1]).created_at
                          = TimeOwed(l.hdr)]_vars

\* with TEST_MODE unset, a get_paste sent with x-test-now-ms: 1000 has just
\* returned a paste that is expired at 1000 and was not yet by the clock
C19_Witness ==
    \E id \in Ids :
        /\ ~testMode
        /\ Answered("fetch", id)
        /\ lastResp.hdr # None
        /\ HasTtl(id)
        /\ ~Before(int(lastResp.hdr[1]), ExpiryOf(id))
        /\ Before(lastResp.now[1], ExpiryOf(id))
        /\ lastResp.status = 200

\* C20: the store's own time to live survives reads. For a paste created
\* with ttl_seconds, in every state after create_paste has answered in which
\* the record is present, the key still carries a time to live in the
\* store, also after the write-back of each successful get_paste.
C20_StoreExpirySurvives ==
    \A id \in Ids :
        (HasTtl(id) /\ Requestable(id) /\ store[id].present)
            => store[id].deadline # None

====
